---- MODULE Spec2Model ----
(***************************************************************************)
(* A model of dbml-entity's transpiler (src/transpiler/mod.rs): the        *)
(* function transpile, which turns a semantic schema (tables, relations,   *)
(* enums) into the text of sea-orm entity modules, and Config::transpile,  *)
(* which parses the input file, calls it and writes the text out.          *)
(*                                                                         *)
(* Text is kept as the program builds it: a name is the sequence of its    *)
(* characters, a line is a format string with the names substituted into   *)
(* it, and a block is a header with an ordered list of entries.            *)
(***************************************************************************)
EXTENDS Integers, Sequences, FiniteSets, TLC

VARIABLES
  ast,                \* the SemanticSchemaBlock parse_file returns
  out_path,           \* Config.out_path: <<>> is None, <<p>> is Some(p)
  pc,                 \* where the run of Config::transpile stands
  ti,                 \* index of the table the outer fold is at
  table_block,        \* the "pub struct Model" block of the current table
  rel_block,          \* the "pub enum Relation" block of the current table
  rel_entity_blocks,  \* the auxiliary blocks of the current table
  codegen,            \* the accumulator of the outer folds
  result,             \* what transpile returned: <<>> until Ok(text)
  ret,                \* what Config::transpile returned, or how it ended
  file                \* the output file: <<>> until written, then <<text>>

vars == <<ast, out_path, pc, ti, table_block, rel_block, rel_entity_blocks,
          codegen, result, ret, file>>

\* ---------------------------------------------------------------- bounds

MaxTables == 2
MaxRefs == 2
MaxCols == 1

\* ------------------------------------------------------------ characters

LowerAlpha == <<"a","b","c","d","e","f","g","h","i","j","k","l","m",
                "n","o","p","q","r","s","t","u","v","w","x","y","z">>
UpperAlpha == <<"A","B","C","D","E","F","G","H","I","J","K","L","M",
                "N","O","P","Q","R","S","T","U","V","W","X","Y","Z">>

Letters == DOMAIN LowerAlpha

is_lowercase(c) == \E i \in Letters : LowerAlpha[i] = c
is_uppercase(c) == \E i \in Letters : UpperAlpha[i] = c
is_numeric(c) == c \in {"0","1","2","3","4","5","6","7","8","9"}
to_ascii_uppercase(c) ==
  IF is_lowercase(c) THEN UpperAlpha[CHOOSE i \in Letters : LowerAlpha[i] = c] ELSE c
to_ascii_lowercase(c) ==
  IF is_uppercase(c) THEN LowerAlpha[CHOOSE i \in Letters : UpperAlpha[i] = c] ELSE c
char_is_seperator(c) == c \in {" ", "-", "_"}
is_not_alphanumeric(c) == ~(is_lowercase(c) \/ is_uppercase(c) \/ is_numeric(c))

RECURSIVE trim_right(_)
trim_right(s) ==
  IF s # <<>> /\ char_is_seperator(s[Len(s)])
    THEN trim_right(SubSeq(s, 1, Len(s) - 1))
    ELSE s

\* to_pascal_case: a word starts after a separator or where an upper-case
\* letter follows a remembered lower-case one; its first letter is raised,
\* every other letter lowered, the separators dropped.
RECURSIVE camel_like(_, _, _, _, _, _)
camel_like(s, i, new_word, last_char, found, acc) ==
  IF i > Len(s) THEN acc
  ELSE LET c == s[i] IN
    IF char_is_seperator(c) /\ found
      THEN camel_like(s, i + 1, TRUE, last_char, found, acc)
    ELSE IF ~found /\ is_not_alphanumeric(c)
      THEN camel_like(s, i + 1, new_word, last_char, found, acc)
    ELSE IF is_numeric(c)
      THEN camel_like(s, i + 1, TRUE, last_char, TRUE, Append(acc, c))
    ELSE IF new_word \/ (is_lowercase(last_char) /\ is_uppercase(c))
      THEN camel_like(s, i + 1, FALSE, last_char, TRUE,
                      Append(acc, to_ascii_uppercase(c)))
    ELSE camel_like(s, i + 1, new_word, c, TRUE,
                    Append(acc, to_ascii_lowercase(c)))

to_pascal_case(s) == camel_like(trim_right(s), 1, TRUE, " ", FALSE, <<>>)

nth_or_upper(s, i) == IF i >= 1 /\ i <= Len(s) THEN s[i] ELSE "A"

\* to_snake_case: letters lowered, runs of separators one "_", and a "_"
\* put before an upper-case letter that has a lower-case neighbour.
RECURSIVE snake_like(_, _, _, _, _)
snake_like(orig, s, i, first_character, acc) ==
  IF i > Len(s) THEN acc
  ELSE LET c == s[i] IN
    IF char_is_seperator(c)
      THEN IF ~first_character
             THEN snake_like(orig, s, i + 1, TRUE, Append(acc, "_"))
             ELSE snake_like(orig, s, i + 1, first_character, acc)
    ELSE IF /\ ~first_character
            /\ is_uppercase(c)
            /\ \/ is_lowercase(nth_or_upper(orig, i + 1))
               \/ is_lowercase(nth_or_upper(orig, i - 1))
      THEN snake_like(orig, s, i + 1, FALSE,
                      acc \o <<"_", to_ascii_lowercase(c)>>)
    ELSE snake_like(orig, s, i + 1, FALSE, Append(acc, to_ascii_lowercase(c)))

to_snake_case(s) == snake_like(s, trim_right(s), 1, TRUE, <<>>)

\* ------------------------------------------------------- lines and blocks

\* A line of output: format!(fmt, args...), or "#[sea_orm(..)]" around the
\* attributes joined by ", ".
Line(fmt, args) == [fmt |-> fmt, attrs |-> <<>>, args |-> args]
Attr(fmt, args) == [fmt |-> fmt, args |-> args]
SeaOrm(attrs) == [fmt |-> "#[sea_orm({})]", attrs |-> attrs, args |-> <<>>]

\* Block::new(depth, header), Codegen::new() being the block without header.
BlockNew(depth, header) == [depth |-> depth, header |-> header, entries |-> <<>>]
CodegenNew == [depth |-> 0, header |-> <<>>, entries |-> <<>>]

line(b, l) == [b EXCEPT !.entries = Append(@, [t |-> "line", l |-> l])]
line_cond(b, cond, l) == IF cond THEN line(b, l) ELSE b
line_skip(b, n) == [b EXCEPT !.entries = Append(@, [t |-> "skip", n |-> n])]
block(b, child) == [b EXCEPT !.entries = Append(@, [t |-> "block", b |-> child])]

RECURSIVE block_vec(_, _)
block_vec(b, children) ==
  IF children = <<>> THEN b
  ELSE block_vec(block(b, Head(children)), Tail(children))

\* to_string: depth first, the header (with the opening delimiter) and the
\* closing delimiter at the block's depth, every entry one deeper, a run of
\* n blank lines as n empty lines.
Rendered(d, l, delim) == [d |-> d, l |-> l, delim |-> delim]

RECURSIVE Blanks(_)
Blanks(n) == IF n = 0 THEN <<>> ELSE <<Rendered(0, Line("", <<>>), "")>> \o Blanks(n - 1)

RECURSIVE RenderEntries(_, _, _)
RECURSIVE Render(_)
Render(b) ==
  IF b.header = <<>>
    THEN RenderEntries(b.entries, 1, b.depth)
    ELSE <<Rendered(b.depth, b.header[1], "{")>>
         \o RenderEntries(b.entries, 1, b.depth + 1)
         \o <<Rendered(b.depth, Line("", <<>>), "}")>>

RenderEntries(es, i, d) ==
  IF i > Len(es) THEN <<>>
  ELSE LET e == es[i] IN
    (CASE e.t = "line" -> <<Rendered(d, e.l, "")>>
       [] e.t = "skip" -> Blanks(e.n)
       [] e.t = "block" -> Render(e.b))
    \o RenderEntries(es, i + 1, d)

to_string(b) == Render(b)

\* ----------------------------------------------------------- field listing

\* The semantic type's mappings: the explicit column type (<<>> when the
\* type has none) and the native type.
to_col_type(type) == type.col_type
to_rust_type(type) == type.rust_type

\* A slip: the index-derived primary key tested on its own, not as the
\* alternative of is_pk.
PrimaryKeyAttrsIndependent(table, field) ==
  (IF field.settings.is_pk
     THEN <<Attr("primary_key", <<>>)>>
          \o (IF ~field.settings.is_incremental
                THEN <<Attr("auto_increment = false", <<>>)>>
                ELSE <<>>)
     ELSE <<>>)
  \o (IF field.name \in table.meta_indexer.pk_list
        THEN <<Attr("primary_key", <<>>)>>
        ELSE <<>>)

\* out_fields of one column: the attributes in the order they are pushed.
PrimaryKeyAttrs(table, field) ==
  IF field.settings.is_pk
    THEN <<Attr("primary_key", <<>>)>>
         \o (IF ~field.settings.is_incremental
               THEN <<Attr("auto_increment = false", <<>>)>>
               ELSE <<>>)
    ELSE IF field.name \in table.meta_indexer.pk_list
      THEN <<Attr("primary_key", <<>>)>>
      ELSE <<>>

\* A slip: one push for the column's flag and one for the derived set.
UniqueAttrsIndependent(table, field) ==
  (IF field.settings.is_unique THEN <<Attr("unique", <<>>)>> ELSE <<>>)
  \o (IF field.name \in table.meta_indexer.unique_list
        THEN <<Attr("unique", <<>>)>>
        ELSE <<>>)

UniqueAttrs(table, field) ==
  IF field.settings.is_unique \/ field.name \in table.meta_indexer.unique_list
    THEN <<Attr("unique", <<>>)>>
    ELSE <<>>

DefaultAttrs(field) ==
  IF field.settings.default = <<>> THEN <<>>
  ELSE LET default == field.settings.default[1] IN
    IF default.is_string
      THEN <<Attr("default_value = \"{}\"", <<default.text>>)>>
      ELSE <<Attr("default_value = {}", <<default.text>>)>>

out_fields(table, field) ==
  (IF to_col_type(field.type) # <<>>
     THEN <<Attr("column_type = \"{}\"", to_col_type(field.type))>>
     ELSE <<>>)
  \o PrimaryKeyAttrs(table, field)
  \o (IF field.settings.is_nullable THEN <<Attr("nullable", <<>>)>> ELSE <<>>)
  \o UniqueAttrs(table, field)
  \o DefaultAttrs(field)

FieldLine(field) ==
  IF field.settings.is_nullable
    THEN Line("pub {}: Option<{}>,", <<field.name, to_rust_type(field.type)>>)
    ELSE Line("pub {}: {},", <<field.name, to_rust_type(field.type)>>)

RECURSIVE FieldListing(_, _, _, _)
FieldListing(acc, table, fields, i) ==
  IF i > Len(fields) THEN acc
  ELSE LET field == fields[i]
           attrs == out_fields(table, field)
       IN FieldListing(line(line_cond(acc, attrs # <<>>, SeaOrm(attrs)), FieldLine(field)),
                       table, fields, i + 1)

\* -------------------------------------------------------- relation listing

Supported == {"One2One", "Many2One"}

\* get_table_refs(ident): the relations of the table, in the order of the
\* schema's list: those leaving it (rto), those reaching it (rby), and
\* those from it to itself (rself).
IsSelf(r, ident) == r.lhs.table = ident.name /\ r.rhs.table = ident.name
IsOutgoing(r, ident) == r.lhs.table = ident.name /\ r.rhs.table # ident.name
IsIncoming(r, ident) == r.rhs.table = ident.name /\ r.lhs.table # ident.name

get_table_refs(schema, ident) ==
  [rto_vec |-> SelectSeq(schema.refs, LAMBDA r : IsOutgoing(r, ident)),
   rby_vec |-> SelectSeq(schema.refs, LAMBDA r : IsIncoming(r, ident)),
   rself_vec |-> SelectSeq(schema.refs, LAMBDA r : IsSelf(r, ident))]

\* on_delete / on_update of the relation's settings, when it has any.
ActionAttrs(rto) ==
  IF rto.settings = <<>> THEN <<>>
  ELSE LET settings == rto.settings[1] IN
    (IF settings.on_delete # <<>>
       THEN <<Attr("on_delete = \"{}\"", <<to_pascal_case(settings.on_delete[1])>>)>>
       ELSE <<>>)
    \o (IF settings.on_update # <<>>
          THEN <<Attr("on_update = \"{}\"", <<to_pascal_case(settings.on_update[1])>>)>>
          ELSE <<>>)

\* compositions.get(0).unwrap() of both endpoints panics on an empty list.
UnwrapsNone(rto) == rto.lhs.compositions = <<>> \/ rto.rhs.compositions = <<>>

\* The self-relation fold, one relation: how it panics ("" when it does
\* not), the lines it adds to the relation block, the blocks it pushes.
SelfPanic(rto) == IF UnwrapsNone(rto) THEN "unwrap_none" ELSE ""

SelfDerive(rto) ==
  SeaOrm(<<Attr("belongs_to = \"Entity\"", <<>>),
           Attr("from = \"Column::{}\"", <<to_pascal_case(rto.lhs.compositions[1])>>),
           Attr("to = \"Column::{}\"", <<to_pascal_case(rto.rhs.compositions[1])>>)>>
         \o ActionAttrs(rto))

SelfLines(rto) == <<SelfDerive(rto), Line("SelfReferencing,", <<>>)>>

\* A slip: the self-relation linked like a relation to another table.
SelfBlocksAsRelated(rto) ==
  <<block(BlockNew(2, <<Line("impl Related<super::{}::Entity> for Entity",
                             <<to_snake_case(rto.rhs.table)>>)>>),
          line(BlockNew(3, <<Line("fn to() -> RelationDef", <<>>)>>),
               Line("Relation::{}.def()", <<to_pascal_case(rto.rhs.table)>>)))>>

SelfBlocks(rto) ==
  <<BlockNew(2, <<Line("pub struct SelfReferencingLink", <<>>)>>),
    block(line_skip(line(line(
            BlockNew(2, <<Line("impl Linked for SelfReferencingLink", <<>>)>>),
            Line("type FromEntity = Entity;", <<>>)),
            Line("type ToEntity = Entity;", <<>>)),
            1),
          line(BlockNew(3, <<Line("fn link(&self) -> Vec<RelationDef>", <<>>)>>),
               Line("vec![Relation::SelfReferencing.def()]", <<>>)))>>

\* The block "impl Related<super::x::Entity> for Entity" of a relation
\* whose opposite table is `table`.
RelatedBlock(table) ==
  block(BlockNew(2, <<Line("impl Related<super::{}::Entity> for Entity",
                           <<to_snake_case(table)>>)>>),
        line(BlockNew(3, <<Line("fn to() -> RelationDef", <<>>)>>),
             Line("Relation::{}.def()", <<to_pascal_case(table)>>)))

\* The outgoing fold, one relation.
OutgoingPanic(rto) ==
  IF UnwrapsNone(rto) THEN "unwrap_none"
  ELSE IF rto.rel \notin Supported THEN "unsupported_rel"
  ELSE ""

OutgoingDerive(rto) ==
  SeaOrm(<<Attr("belongs_to = \"super::{}::Entity\"", <<to_snake_case(rto.rhs.table)>>),
           Attr("from = \"Column::{}\"", <<to_pascal_case(rto.lhs.compositions[1])>>),
           Attr("to = \"super::{}::Column::{}\"",
                <<to_snake_case(rto.rhs.table), to_pascal_case(rto.rhs.compositions[1])>>)>>
         \o ActionAttrs(rto))

OutgoingLines(rto) ==
  <<OutgoingDerive(rto), Line("{},", <<to_pascal_case(rto.rhs.table)>>)>>

OutgoingBlocks(rto) == <<RelatedBlock(rto.rhs.table)>>

\* The incoming fold, one relation.
IncomingPanic(rby) == IF rby.rel \notin Supported THEN "unsupported_rel" ELSE ""

\* A slip: the two reverse views exchanged.
IncomingDeriveExchanged(rby) ==
  IF rby.rel = "One2One"
    THEN SeaOrm(<<Attr("has_many = \"super::{}::Entity\"", <<to_snake_case(rby.lhs.table)>>)>>)
    ELSE SeaOrm(<<Attr("has_one = \"super::{}::Entity\"", <<to_snake_case(rby.lhs.table)>>)>>)

IncomingDerive(rby) ==
  IF rby.rel = "One2One"
    THEN SeaOrm(<<Attr("has_one = \"super::{}::Entity\"", <<to_snake_case(rby.lhs.table)>>)>>)
    ELSE SeaOrm(<<Attr("has_many = \"super::{}::Entity\"", <<to_snake_case(rby.lhs.table)>>)>>)

IncomingLines(rby) ==
  <<IncomingDerive(rby), Line("{},", <<to_pascal_case(rby.lhs.table)>>)>>

IncomingBlocks(rby) == <<RelatedBlock(rby.lhs.table)>>

\* A fold over the relations of one role: st is the relation block, the
\* auxiliary blocks pushed so far and the panic that ended the fold.
RolePanic(role, r) ==
  CASE role = "rself" -> SelfPanic(r)
    [] role = "rto" -> OutgoingPanic(r)
    [] role = "rby" -> IncomingPanic(r)

RoleLines(role, r) ==
  CASE role = "rself" -> SelfLines(r)
    [] role = "rto" -> OutgoingLines(r)
    [] role = "rby" -> IncomingLines(r)

RoleBlocks(role, r) ==
  CASE role = "rself" -> SelfBlocks(r)
    [] role = "rto" -> OutgoingBlocks(r)
    [] role = "rby" -> IncomingBlocks(r)

\* A slip: a relation whose variant name is already in the block is skipped.
RECURSIVE RelFoldDistinctNames(_, _, _, _)
RelFoldDistinctNames(role, refs, i, st) ==
  IF i > Len(refs) THEN st
  ELSE IF RolePanic(role, refs[i]) # ""
    THEN [st EXCEPT !.panic = RolePanic(role, refs[i])]
  ELSE IF \E k \in DOMAIN st.rel_block.entries :
            st.rel_block.entries[k].l = RoleLines(role, refs[i])[2]
    THEN RelFoldDistinctNames(role, refs, i + 1, st)
  ELSE RelFoldDistinctNames(role, refs, i + 1,
               [st EXCEPT !.rel_block = line(line(@, RoleLines(role, refs[i])[1]),
                                             RoleLines(role, refs[i])[2]),
                          !.blocks = @ \o RoleBlocks(role, refs[i])])

RECURSIVE RelFold(_, _, _, _)
RelFold(role, refs, i, st) ==
  IF i > Len(refs) THEN st
  ELSE IF RolePanic(role, refs[i]) # ""
    THEN [st EXCEPT !.panic = RolePanic(role, refs[i])]
  ELSE RelFold(role, refs, i + 1,
               [st EXCEPT !.rel_block = line(line(@, RoleLines(role, refs[i])[1]),
                                             RoleLines(role, refs[i])[2]),
                          !.blocks = @ \o RoleBlocks(role, refs[i])])

\* construct mod block
ModBlock(ident, tblock, rblock, blocks) ==
  line(line_skip(block_vec(block(line(line_skip(block(line(line(line_skip(line(
    BlockNew(1, <<Line("pub mod {}", <<to_snake_case(ident.name)>>)>>),
    Line("use sea_orm::entity::prelude::*;", <<>>)),
    1),
    Line("#[derive(Clone, Debug, PartialEq, DeriveEntityModel)]", <<>>)),
    Line("#[sea_orm(table_name = \"{}\", schema_name = \"{}\")]",
         <<ident.name, IF ident.schema = <<>> THEN <<"p","u","b","l","i","c">>
                                             ELSE ident.schema[1]>>)),
    tblock),
    1),
    Line("#[derive(Copy, Clone, Debug, EnumIter, DeriveRelation)]", <<>>)),
    rblock),
    blocks),
    1),
    Line("impl ActiveModelBehavior for ActiveModel {}", <<>>))

\* The fold over the enums.
RECURSIVE EnumValues(_, _, _)
EnumValues(acc, values, i) ==
  IF i > Len(values) THEN acc
  ELSE EnumValues(line(line(acc,
                    Line("#[sea_orm(string_value = \"{}\")]", <<values[i].value>>)),
                    Line("{},", <<to_pascal_case(values[i].value)>>)),
                  values, i + 1)

RECURSIVE EnumListing(_, _, _)
EnumListing(acc, enums, i) ==
  IF i > Len(enums) THEN acc
  ELSE LET name == enums[i].ident.name
           schema == enums[i].ident.schema
       IN EnumListing(
            block(line(line(line_skip(acc, 1),
              Line("#[derive(Clone, Debug, PartialEq, EnumIter, DeriveActiveEnum)]", <<>>)),
              Line("#[sea_orm(rs_type = \"String\", db_type = \"Enum\", enum_name = \"{}\", schema_name = \"{}\")]",
                   <<name, IF schema = <<>> THEN <<"p","u","b","l","i","c">> ELSE schema[1]>>)),
              EnumValues(BlockNew(1, <<Line("pub enum {}", <<to_pascal_case(name)>>)>>),
                         enums[i].values, 1)),
            enums, i + 1)

\* ------------------------------------------------------------ the inputs

\* Names, as the sequences of their characters.
N_a_b == <<"a", "_", "b">>
N_Da == <<"D", "a">>
N_id == <<"i", "d">>
N_b_id == <<"b", "_", "i", "d">>
N_i32 == <<"i", "3", "2">>
N_String == <<"S", "t", "r", "i", "n", "g">>
N_Text == <<"T", "e", "x", "t">>

TableNames == {N_a_b, N_Da}
Kinds == {"Undef", "One2One", "One2Many", "Many2One", "Many2Many"}

IntType == [col_type |-> <<>>, rust_type |-> N_i32]
TextType == [col_type |-> <<N_Text>>, rust_type |-> N_String]

Settings(pk, inc, null, uniq, default) ==
  [is_pk |-> pk, is_incremental |-> inc, is_nullable |-> null,
   is_unique |-> uniq, default |-> default]

Column(name, type, settings) == [name |-> name, type |-> type, settings |-> settings]

\* The columns: every combination of the key flags on two names, and a
\* nullable, a typed and two defaulted columns.
ColPool ==
  {Column(n, IntType, Settings(pk, inc, FALSE, uniq, <<>>)) :
     n \in {N_id, N_b_id}, pk \in BOOLEAN, inc \in BOOLEAN, uniq \in BOOLEAN}
  \cup {Column(N_id, TextType, Settings(FALSE, FALSE, TRUE, FALSE, <<>>)),
        Column(N_id, TextType, Settings(TRUE, FALSE, FALSE, TRUE,
                                        <<[is_string |-> TRUE, text |-> N_a_b]>>)),
        Column(N_id, IntType, Settings(FALSE, TRUE, TRUE, FALSE,
                                       <<[is_string |-> FALSE, text |-> <<"0">>]>>))}

MetaPool == [pk_list : {{}, {N_id}}, unique_list : {{}, {N_id}}]

Table(name, cols, meta) ==
  [ident |-> [name |-> name, schema |-> <<>>], cols |-> cols, meta_indexer |-> meta]

PlainTable(name) ==
  Table(name, <<Column(N_id, IntType, Settings(TRUE, TRUE, FALSE, FALSE, <<>>))>>,
        [pk_list |-> {}, unique_list |-> {}])

Endpoint(table, compositions) ==
  [schema |-> <<>>, table |-> table, compositions |-> compositions]

Ref(rel, lhs, rhs, settings) ==
  [rel |-> rel, lhs |-> lhs, rhs |-> rhs, settings |-> settings]

\* The relations: every kind on a self, a forward and a backward edge of
\* the two tables, endpoints without composed columns, relations with
\* referential actions, and a composite one.
RefPool ==
  {Ref(k, Endpoint(p[1], <<N_b_id>>), Endpoint(p[2], <<N_id>>), <<>>) :
     k \in Kinds, p \in {<<N_a_b, N_a_b>>, <<N_a_b, N_Da>>, <<N_Da, N_a_b>>}}
  \cup {Ref("Many2One", Endpoint(N_a_b, <<>>), Endpoint(N_Da, <<N_id>>), <<>>),
        Ref("Many2One", Endpoint(N_a_b, <<N_b_id>>), Endpoint(N_Da, <<>>), <<>>),
        Ref("Many2One", Endpoint(N_a_b, <<>>), Endpoint(N_a_b, <<N_id>>), <<>>)}
  \cup {Ref("Many2One", Endpoint(N_a_b, <<N_b_id>>), Endpoint(N_Da, <<N_id>>),
            <<[on_delete |-> <<<<"c","a","s","c","a","d","e">>>>, on_update |-> <<>>]>>),
        Ref("One2One", Endpoint(N_a_b, <<N_b_id>>), Endpoint(N_a_b, <<N_id>>),
            <<[on_delete |-> <<>>, on_update |-> <<<<"n","o"," ","a","c","t","i","o","n">>>>]>>),
        Ref("Many2One", Endpoint(N_Da, <<N_b_id, N_id>>), Endpoint(N_a_b, <<N_id, N_b_id>>), <<>>)}

EnumPool ==
  <<[ident |-> [name |-> <<"s", "t">>, schema |-> <<>>],
     values |-> <<[value |-> <<"o", "n">>], [value |-> <<"o", "f", "f">>]>>]>>

\* The sequences over S of length lo..hi.
SeqsOf(S, lo, hi) == UNION {[1..n -> S] : n \in lo..hi}

IsInjective(f) == \A i, j \in DOMAIN f : f[i] = f[j] => i = j

\* Schemas that vary the relations: tables of distinct names, each with one
\* plain column.
RelSchemas ==
  {[tables |-> [i \in DOMAIN names |-> PlainTable(names[i])],
    refs |-> refs, enums |-> EnumPool] :
     names \in {f \in SeqsOf(TableNames, 1, MaxTables) : IsInjective(f)},
     refs \in SeqsOf(RefPool, 0, MaxRefs)}

\* Schemas that vary the columns of one table.
FieldSchemas ==
  {[tables |-> <<Table(N_a_b, cols, meta)>>, refs |-> <<>>, enums |-> EnumPool] :
     cols \in SeqsOf(ColPool, 1, MaxCols), meta \in MetaPool}

\* ------------------------------------------------------------- the program

NoBlock == BlockNew(0, <<>>)

\* A slip: the outgoing fold placed before the self-relation fold.
RoleOrderOutgoingFirst == <<"rto", "rself", "rby">>

\* The order of the three relation folds of a table.
RoleOrder == <<"rself", "rto", "rby">>

AfterRole(role) ==
  IF role = RoleOrder[3] THEN "mod"
  ELSE RoleOrder[1 + CHOOSE i \in 1..2 : RoleOrder[i] = role]

RoleRefs(role) ==
  LET refs == get_table_refs(ast, ast.tables[ti].ident) IN
  CASE role = "rself" -> refs.rself_vec
    [] role = "rto" -> refs.rto_vec
    [] role = "rby" -> refs.rby_vec

\* Config::new, with or without set_out_path.
Init ==
  /\ ast \in RelSchemas \cup FieldSchemas
  /\ out_path \in {<<>>, <<"out.rs">>}
  /\ pc = "parse_file"
  /\ ti = 1
  /\ table_block = NoBlock
  /\ rel_block = NoBlock
  /\ rel_entity_blocks = <<>>
  /\ codegen = NoBlock
  /\ result = <<>>
  /\ ret = "none"
  /\ file = <<>>

\* parse_file succeeds; transpile starts with the header lines.
ParseFile ==
  /\ pc = "parse_file"
  /\ codegen' = line(line_skip(line(CodegenNew,
                  Line("//! Generated by {NAME} {VERSION}", <<>>)), 1),
                  Line("use sea_orm::entity::prelude::*;", <<>>))
  /\ pc' = IF ast.tables = <<>> THEN "enums" ELSE "fields"
  /\ UNCHANGED <<ast, out_path, ti, table_block, rel_block, rel_entity_blocks,
                 result, ret, file>>

\* parse_file fails: the error is returned by `?`.
ParseFileErr ==
  /\ pc = "parse_file"
  /\ pc' = "returned"
  /\ ret' = "Err"
  /\ UNCHANGED <<ast, out_path, ti, table_block, rel_block, rel_entity_blocks,
                 codegen, result, file>>

\* field listing of table ti
Fields ==
  /\ pc = "fields"
  /\ table_block' = FieldListing(BlockNew(2, <<Line("pub struct Model", <<>>)>>),
                                 ast.tables[ti], ast.tables[ti].cols, 1)
  /\ rel_block' = BlockNew(2, <<Line("pub enum Relation", <<>>)>>)
  /\ rel_entity_blocks' = <<>>
  /\ pc' = RoleOrder[1]
  /\ UNCHANGED <<ast, out_path, ti, codegen, result, ret, file>>

\* One of the three relation folds of table ti; a panic ends the process.
Relations(role) ==
  /\ pc = role
  /\ LET st == RelFold(role, RoleRefs(role), 1,
                       [rel_block |-> rel_block, blocks |-> rel_entity_blocks,
                        panic |-> ""])
     IN IF st.panic # ""
          THEN /\ pc' = "panicked"
               /\ ret' = st.panic
               /\ UNCHANGED <<rel_block, rel_entity_blocks>>
          ELSE /\ pc' = AfterRole(role)
               /\ rel_block' = st.rel_block
               /\ rel_entity_blocks' = st.blocks
               /\ UNCHANGED ret
  /\ UNCHANGED <<ast, out_path, ti, table_block, codegen, result, file>>

SelfRelations == Relations("rself")
OutgoingRelations == Relations("rto")
IncomingRelations == Relations("rby")

\* construct mod block of table ti and add it to the accumulator
Module ==
  /\ pc = "mod"
  /\ codegen' = block(line_skip(codegen, 1),
                      ModBlock(ast.tables[ti].ident, table_block, rel_block,
                               rel_entity_blocks))
  /\ ti' = ti + 1
  /\ pc' = IF ti < Len(ast.tables) THEN "fields" ELSE "enums"
  /\ table_block' = NoBlock
  /\ rel_block' = NoBlock
  /\ rel_entity_blocks' = <<>>
  /\ UNCHANGED <<ast, out_path, result, ret, file>>

\* the fold over the enums
Enums ==
  /\ pc = "enums"
  /\ codegen' = EnumListing(codegen, ast.enums, 1)
  /\ pc' = "to_string"
  /\ UNCHANGED <<ast, out_path, ti, table_block, rel_block, rel_entity_blocks,
                 result, ret, file>>

\* Ok(codegen.to_string())
Return ==
  /\ pc = "to_string"
  /\ result' = <<to_string(codegen)>>
  /\ pc' = "out_path"
  /\ UNCHANGED <<ast, out_path, ti, table_block, rel_block, rel_entity_blocks,
                 codegen, ret, file>>

\* The output path is out_path or else OUT_DIR; the file is created and
\* written unless there is no path or the file system refuses.
WriteFile ==
  /\ pc = "out_path"
  /\ \E out_dir \in {<<>>, <<"target">>}, io_ok \in BOOLEAN :
       LET path == IF out_path # <<>> THEN out_path ELSE out_dir IN
       IF path # <<>> /\ io_ok
         THEN file' = result /\ ret' = "Ok"
         ELSE file' = file /\ ret' = "Err"
  /\ pc' = "returned"
  /\ UNCHANGED <<ast, out_path, ti, table_block, rel_block, rel_entity_blocks,
                 codegen, result>>

Next ==
  \/ ParseFile
  \/ ParseFileErr
  \/ Fields
  \/ SelfRelations
  \/ OutgoingRelations
  \/ IncomingRelations
  \/ Module
  \/ Enums
  \/ Return
  \/ WriteFile

Spec == Init /\ [][Next]_vars

\* ------------------------------------------------------ reading the output

\* transpile has returned Ok: codegen is the whole tree, result its text.
TranspileOk == result # <<>>

Count(S) == Cardinality(S)

\* The entity modules of the output, in the order they were emitted.
Modules ==
  SelectSeq(codegen.entries,
            LAMBDA e : e.t = "block" /\ e.b.header[1].fmt = "pub mod {}")

BlocksOf(m) == SelectSeq(m.entries, LAMBDA e : e.t = "block")

\* The relation block of a module and its variants: each an attribute line
\* followed by the line of the variant's name.
RelationBlockOf(m) ==
  (CHOOSE e \in {BlocksOf(m)[k] : k \in DOMAIN BlocksOf(m)} :
     e.b.header[1].fmt = "pub enum Relation").b

VariantsOf(rb) ==
  [k \in 1..(Len(rb.entries) \div 2) |->
     [derive |-> rb.entries[2 * k - 1].l, name |-> rb.entries[2 * k].l]]

\* The auxiliary blocks of a module: every block but the field block and
\* the relation block.
AuxBlocksOf(m) ==
  SelectSeq(BlocksOf(m),
            LAMBDA e : e.b.header[1].fmt \notin {"pub struct Model", "pub enum Relation"})

IsLinkBlock(e) == e.b.header[1].fmt = "impl Linked for SelfReferencingLink"
IsMarkerBlock(e) == e.b.header[1].fmt = "pub struct SelfReferencingLink"
IsRelatedBlock(e) == e.b.header[1].fmt = "impl Related<super::{}::Entity> for Entity"

\* The relations of the schema by position, for the table at position i.
SelfIdx(i) == {j \in DOMAIN ast.refs : IsSelf(ast.refs[j], ast.tables[i].ident)}
OutIdx(i) == {j \in DOMAIN ast.refs : IsOutgoing(ast.refs[j], ast.tables[i].ident)}
InIdx(i) == {j \in DOMAIN ast.refs : IsIncoming(ast.refs[j], ast.tables[i].ident)}

IsSelfVariant(v) == v.name = Line("SelfReferencing,", <<>>)
IsBelongsTo(v) == v.derive.attrs[1].fmt = "belongs_to = \"super::{}::Entity\""
IsHas(v) == v.derive.attrs[1].fmt \in {"has_one = \"super::{}::Entity\"",
                                      "has_many = \"super::{}::Entity\""}

\* The attributes of the c-th column in a field block: the attribute line
\* right before the column's own line, if there is one.
FieldPositions(tb) ==
  {p \in DOMAIN tb.entries :
     tb.entries[p].l.fmt \in {"pub {}: {},", "pub {}: Option<{}>,"}}

AttrsOfColumn(tb, c) ==
  LET p == CHOOSE q \in FieldPositions(tb) :
             Count({x \in FieldPositions(tb) : x <= q}) = c
  IN IF p > 1 /\ tb.entries[p - 1].l.fmt = "#[sea_orm({})]"
       THEN tb.entries[p - 1].l.attrs
       ELSE <<>>

Occurrences(attrs, fmt) == Count({k \in DOMAIN attrs : attrs[k].fmt = fmt})

FieldsListed == pc \in {"rself", "rto", "rby", "mod"}

\* ---------------------------------------------------------------- claims

UnsupportedOnEdge ==
  \E i \in DOMAIN ast.tables : \E j \in SelfIdx(i) \cup OutIdx(i) \cup InIdx(i) :
    ast.refs[j].rel \notin Supported

\* C1: a relation of an unsupported kind (OneToMany, ManyToMany, Undefined)
\* on a self, outgoing or incoming edge of a table of the schema is never
\* accepted: transpile produces no output text for such a schema.
C1_UnsupportedKindNeverAccepted == UnsupportedOnEdge => result = <<>> /\ file = <<>>

\* C2: no failure of the transpilation ends the process with a panic; every
\* failure is returned as an error value.
C2_NoPanic == pc # "panicked"

EmptyEndpointOnEdge ==
  \E i \in DOMAIN ast.tables : \E j \in SelfIdx(i) \cup OutIdx(i) \cup InIdx(i) :
    UnwrapsNone(ast.refs[j])

\* C3: a relation with an endpoint without composed columns, on a self,
\* outgoing or incoming edge of a table of the schema, makes transpile fail:
\* no output text is produced.
C3_EmptyEndpointFails == EmptyEndpointOnEdge => result = <<>> /\ file = <<>>

ForwardAndReverse(r, a, b) ==
  LET A == ast.tables[a].ident.name
      B == ast.tables[b].ident.name
      va == VariantsOf(RelationBlockOf(Modules[a].b))
      vb == VariantsOf(RelationBlockOf(Modules[b].b))
  IN /\ Modules[a].b.header[1].args = <<to_snake_case(A)>>
     /\ Modules[b].b.header[1].args = <<to_snake_case(B)>>
     /\ \E k \in DOMAIN va :
          /\ va[k].name = Line("{},", <<to_pascal_case(B)>>)
          /\ Len(va[k].derive.attrs) >= 3
          /\ va[k].derive.attrs[1] =
               Attr("belongs_to = \"super::{}::Entity\"", <<to_snake_case(B)>>)
          /\ va[k].derive.attrs[2] =
               Attr("from = \"Column::{}\"", <<to_pascal_case(r.lhs.compositions[1])>>)
          /\ va[k].derive.attrs[3] =
               Attr("to = \"super::{}::Column::{}\"",
                    <<to_snake_case(B), to_pascal_case(r.rhs.compositions[1])>>)
     /\ \E k \in DOMAIN vb :
          /\ vb[k].name = Line("{},", <<to_pascal_case(A)>>)
          /\ vb[k].derive =
               SeaOrm(<<Attr(IF r.rel = "Many2One"
                               THEN "has_many = \"super::{}::Entity\""
                               ELSE "has_one = \"super::{}::Entity\"",
                             <<to_snake_case(A)>>)>>)

\* C4: when transpile succeeds, every ManyToOne or OneToOne relation from a
\* table A to another table B of the schema gives A's relation block a
\* belongs_to variant named PascalCase(B) that points at B's module, with
\* the relation's first columns, and gives B's relation block a variant named
\* PascalCase(A) that points at A's module: has_many for ManyToOne, has_one
\* for OneToOne.
C4_ForwardAndReverseVariants ==
  TranspileOk =>
    \A j \in DOMAIN ast.refs : \A a, b \in DOMAIN ast.tables :
      (/\ ast.refs[j].rel \in Supported
       /\ a # b
       /\ ast.refs[j].lhs.table = ast.tables[a].ident.name
       /\ ast.refs[j].rhs.table = ast.tables[b].ident.name)
      => ForwardAndReverse(ast.refs[j], a, b)

C4_Witness ==
  /\ TranspileOk
  /\ Len(ast.tables) = 2
  /\ \E j, k \in DOMAIN ast.refs :
       /\ ast.refs[j].rel = "Many2One"
       /\ ast.refs[k].rel = "One2One"
       /\ ast.refs[j].lhs.table # ast.refs[j].rhs.table
       /\ ast.refs[k].lhs.table # ast.refs[k].rhs.table

OneSelfManyToOne(i) ==
  /\ Count(SelfIdx(i)) = 1
  /\ \A j \in SelfIdx(i) : ast.refs[j].rel = "Many2One"

SelfRelationOnce(i) ==
  LET m == Modules[i].b
      T == ast.tables[i].ident.name
      v == VariantsOf(RelationBlockOf(m))
      aux == AuxBlocksOf(m)
      links == {k \in DOMAIN aux : IsLinkBlock(aux[k])}
  IN /\ Count({k \in DOMAIN v : IsSelfVariant(v[k])}) = 1
     /\ \A k \in DOMAIN v :
          IsSelfVariant(v[k]) =>
            v[k].derive.attrs[1] = Attr("belongs_to = \"Entity\"", <<>>)
     /\ Count(links) = 1
     /\ Count({k \in DOMAIN aux : IsMarkerBlock(aux[k])}) = 1
     /\ \A k \in links :
          /\ aux[k].b.entries[1].l = Line("type FromEntity = Entity;", <<>>)
          /\ aux[k].b.entries[2].l = Line("type ToEntity = Entity;", <<>>)
     /\ \A k \in DOMAIN v : v[k].name # Line("{},", <<to_pascal_case(T)>>)
     /\ \A k \in DOMAIN aux :
          IsRelatedBlock(aux[k]) => aux[k].b.header[1].args # <<to_snake_case(T)>>
     /\ Len(v) = 1 + Count(OutIdx(i)) + Count(InIdx(i))

\* C5: when transpile succeeds, a table whose self-relations are exactly one
\* relation, of kind ManyToOne, has exactly one SelfReferencing variant and
\* exactly one link block, which names Entity as FromEntity and as ToEntity;
\* no variant and no Related block of the table is named after the table
\* itself.
C5_SelfRelationOnce ==
  TranspileOk => \A i \in DOMAIN ast.tables : OneSelfManyToOne(i) => SelfRelationOnce(i)

C5_Witness ==
  /\ TranspileOk
  /\ \E i \in DOMAIN ast.tables :
       OneSelfManyToOne(i) /\ Count(OutIdx(i) \cup InIdx(i)) = 1

Ranked(S, n) == CHOOSE j \in S : Count({x \in S : x <= j}) = n

\* The relation the n-th variant of table i must come from, and its role.
ExpectedRef(i, n) ==
  IF n <= Count(SelfIdx(i))
    THEN [role |-> "rself", j |-> Ranked(SelfIdx(i), n)]
  ELSE IF n <= Count(SelfIdx(i)) + Count(OutIdx(i))
    THEN [role |-> "rto", j |-> Ranked(OutIdx(i), n - Count(SelfIdx(i)))]
  ELSE [role |-> "rby",
        j |-> Ranked(InIdx(i), n - Count(SelfIdx(i)) - Count(OutIdx(i)))]

VariantIsOf(v, role, r) ==
  CASE role = "rself" ->
         /\ IsSelfVariant(v)
         /\ v.derive.attrs[2].args = <<to_pascal_case(r.lhs.compositions[1])>>
         /\ v.derive.attrs[3].args = <<to_pascal_case(r.rhs.compositions[1])>>
    [] role = "rto" ->
         /\ IsBelongsTo(v)
         /\ v.name.args = <<to_pascal_case(r.rhs.table)>>
         /\ v.derive.attrs[2].args = <<to_pascal_case(r.lhs.compositions[1])>>
         /\ Len(v.derive.attrs) = 3 + Len(ActionAttrs(r))
    [] role = "rby" ->
         /\ IsHas(v)
         /\ v.name.args = <<to_pascal_case(r.lhs.table)>>
         /\ (v.derive.attrs[1].fmt = "has_one = \"super::{}::Entity\"") = (r.rel = "One2One")

\* What an auxiliary block or a variant refers to: the variant's name.
LinkTarget(e) == e.b.entries[Len(e.b.entries)].b.entries[1].l.args

AuxTargets(m) ==
  LET linked == SelectSeq(AuxBlocksOf(m), LAMBDA e : ~IsMarkerBlock(e))
  IN [k \in DOMAIN linked |->
        [self |-> IsLinkBlock(linked[k]), name |-> LinkTarget(linked[k])]]

VariantTargets(m) ==
  LET v == VariantsOf(RelationBlockOf(m))
  IN [k \in DOMAIN v |-> [self |-> IsSelfVariant(v[k]), name |-> v[k].name.args]]

RelationsInOrder(i) ==
  LET m == Modules[i].b
      v == VariantsOf(RelationBlockOf(m))
  IN /\ Len(v) = Count(SelfIdx(i)) + Count(OutIdx(i)) + Count(InIdx(i))
     /\ \A n \in DOMAIN v :
          VariantIsOf(v[n], ExpectedRef(i, n).role, ast.refs[ExpectedRef(i, n).j])
     /\ AuxTargets(m) = VariantTargets(m)

\* C6: when transpile succeeds, the variants of every table's relation block
\* are its self-relations, then its outgoing relations, then its incoming
\* relations, each group in the order of the schema's relation list; the
\* auxiliary blocks follow the order of the variants they belong to.
C6_RelationsInOrder ==
  TranspileOk => \A i \in DOMAIN ast.tables : RelationsInOrder(i)

C6_Witness ==
  /\ TranspileOk
  /\ \E i \in DOMAIN ast.tables :
       \/ \E j \in OutIdx(i), k \in SelfIdx(i) : j < k
       \/ \E j \in InIdx(i), k \in OutIdx(i) : j < k

PrimaryKeyRule(table, c, attrs) ==
  LET field == table.cols[c]
      pk == field.settings.is_pk
      derived == field.name \in table.meta_indexer.pk_list
  IN /\ Occurrences(attrs, "primary_key") = (IF pk \/ derived THEN 1 ELSE 0)
     /\ Occurrences(attrs, "auto_increment = false") =
          (IF pk /\ ~field.settings.is_incremental THEN 1 ELSE 0)
     /\ \A k \in DOMAIN attrs :
          attrs[k].fmt = "auto_increment = false" =>
            k > 1 /\ attrs[k - 1].fmt = "primary_key"

\* C7: the attributes of every column hold primary_key once iff is_pk is set
\* or the column's name is in the primary-key set, and not at all otherwise;
\* they hold "auto_increment = false" iff is_pk is set and is_incremental is
\* not, and then right after primary_key.
C7_PrimaryKeyAttributes ==
  FieldsListed =>
    \A c \in DOMAIN ast.tables[ti].cols :
      PrimaryKeyRule(ast.tables[ti], c, AttrsOfColumn(table_block, c))

C7_Witness ==
  /\ FieldsListed
  /\ \E c \in DOMAIN ast.tables[ti].cols :
       LET field == ast.tables[ti].cols[c] IN
       /\ field.settings.is_pk
       /\ ~field.settings.is_incremental
       /\ field.name \in ast.tables[ti].meta_indexer.pk_list
       /\ Len(AttrsOfColumn(table_block, c)) >= 2

UniqueRule(table, c, attrs) ==
  LET field == table.cols[c] IN
  Occurrences(attrs, "unique") =
    (IF field.settings.is_unique \/ field.name \in table.meta_indexer.unique_list
       THEN 1 ELSE 0)

\* C8: the attributes of every column hold unique once iff is_unique is set
\* or the column's name is in the unique set, and not at all otherwise.
C8_UniqueOnce ==
  FieldsListed =>
    \A c \in DOMAIN ast.tables[ti].cols :
      UniqueRule(ast.tables[ti], c, AttrsOfColumn(table_block, c))

C8_Witness ==
  /\ FieldsListed
  /\ \E c \in DOMAIN ast.tables[ti].cols :
       LET field == ast.tables[ti].cols[c] IN
       /\ field.settings.is_unique
       /\ field.name \in ast.tables[ti].meta_indexer.unique_list
       /\ Occurrences(AttrsOfColumn(table_block, c), "unique") = 1

OneVariantPerRelation(i) ==
  LET m == Modules[i].b
      v == VariantsOf(RelationBlockOf(m))
      aux == AuxBlocksOf(m)
      T == ast.tables[i].ident.name
  IN /\ Len(v) = Count(SelfIdx(i)) + Count(OutIdx(i)) + Count(InIdx(i))
     /\ Count({k \in DOMAIN aux : ~IsMarkerBlock(aux[k])}) = Len(v)
     /\ Count({k \in DOMAIN v : IsSelfVariant(v[k])}) = Count(SelfIdx(i))
     /\ \A X \in TableNames \ {T} :
          /\ Count({k \in DOMAIN v : v[k].name = Line("{},", <<to_pascal_case(X)>>)})
               = Count({j \in OutIdx(i) : ast.refs[j].rhs.table = X})
                 + Count({j \in InIdx(i) : ast.refs[j].lhs.table = X})
          /\ Count({k \in DOMAIN aux :
                      /\ IsRelatedBlock(aux[k])
                      /\ aux[k].b.header[1].args = <<to_snake_case(X)>>})
               = Count({j \in OutIdx(i) : ast.refs[j].rhs.table = X})
                 + Count({j \in InIdx(i) : ast.refs[j].lhs.table = X})

\* C10: when transpile succeeds, every table has as many variants, and as
\* many link or Related blocks, as it has self, outgoing and incoming
\* relations; for every other table X it has as many variants named
\* PascalCase(X) as it has relations with X, so relations with the same
\* opposite table keep one variant each under the same name.
C10_OneVariantPerRelation ==
  TranspileOk => \A i \in DOMAIN ast.tables : OneVariantPerRelation(i)

C10_Witness ==
  /\ TranspileOk
  /\ \E i \in DOMAIN ast.tables : \E X \in TableNames :
       /\ Count({j \in OutIdx(i) : ast.refs[j].rhs.table = X}) = 1
       /\ Count({j \in InIdx(i) : ast.refs[j].lhs.table = X}) = 1

====
